---- MODULE Spec2Model ----
(***************************************************************************)
(* Model of the nut-and-bolt measuring utility:                            *)
(*   Size.py              calibration store, calibrate_system,             *)
(*                        calculate_size                                   *)
(*   roi.py               select_roi, order_points                         *)
(*   Detectionwithsize.py main: calibration followed by the detection loop *)
(*                                                                         *)
(* Three specifications share the variables:                               *)
(*   Spec      the session of Detectionwithsize.main                       *)
(*   SpecRoi   one run of roi.select_roi (roi.py run as a script)          *)
(*   SpecSize  Size.calculate_size applied to drawn inputs                 *)
(*                                                                         *)
(* Arithmetic is exact.  Pixel coordinates are integers, detector          *)
(* coordinates are multiples of 1/SubPixel pixel, and every real number    *)
(* the program computes here has the form (n/d)*sqrt(rad) with rad         *)
(* square-free, which is kept in lowest terms so that equal numbers are    *)
(* equal records.  Floating-point rounding is outside the model.           *)
(***************************************************************************)
EXTENDS Integers, Sequences, FiniteSets, TLC

-----------------------------------------------------------------------------
(* Bounds of the model *)

\* calibration clicks fall on the grid {0, PickStep, .., MaxPick*PickStep}^2
PickStep == 300
MaxPick == 1
\* ROI clicks fall on the grid {RoiStep, .., MaxRoi*RoiStep}^2
RoiStep == 100
MaxRoi == 3
\* size of a captured frame, in pixels
FrameW == 100
FrameH == 50
\* detector coordinates are multiples of 1/SubPixel pixel
SubPixel == 2
\* detector boxes have corners at -BoxStep, 0, .., MaxBoxX*BoxStep pixels
\* (and the next sub-pixel position after each)
BoxStep == 50
MaxBoxX == 2
MaxBoxY == 1
\* ratios handed to the calibration store: i/j for i <= MaxNum, 1 <= j <= MaxDen
MaxNum == 3
MaxDen == 2
\* points mapped through the transform lie 0..MaxWarp sub-pixel steps right
\* of and below the ROI's top-left corner
MaxWarp == 3

-----------------------------------------------------------------------------
(* Program constants *)

\* calibrate_system(cap, known_size_mm=150.0)
known_size_mm == 150
\* the number of points a ROI selection is confirmed with
RoiCorners == 4

-----------------------------------------------------------------------------
(* Exact arithmetic *)

Abs(x) == IF x < 0 THEN -x ELSE x
Max(a, b) == IF a >= b THEN a ELSE b
Min(a, b) == IF a <= b THEN a ELSE b

RECURSIVE Gcd(_, _)
Gcd(a, b) == IF b = 0 THEN a ELSE Gcd(b, a % b)

\* floor of the square root, int(np.sqrt(n)) for n >= 0, by Newton's
\* iteration from above
RECURSIVE IsqrtFrom(_, _)
IsqrtFrom(n, x) ==
    LET y == (x + n \div x) \div 2
    IN  IF y >= x THEN x ELSE IsqrtFrom(n, y)
Isqrt(n) == IF n = 0 THEN 0 ELSE IsqrtFrom(n, n)

\* the largest s with s*s dividing n (n > 0)
SquarePart(n) ==
    LET R == Isqrt(n)
    IN  R - (CHOOSE i \in 0..(R - 1) : n % ((R - i) * (R - i)) = 0)

\* A real number (n/d)*sqrt(rad): d > 0, gcd(n,d) = 1, rad square-free;
\* d = 0 stands for +inf / -inf (n = 1 / -1).
Zero == [n |-> 0, d |-> 1, rad |-> 1]
Norm(n, d, rad) ==
    IF n = 0 THEN Zero
    ELSE LET g == Gcd(Abs(n), d)
         IN  [n |-> n \div g, d |-> d \div g, rad |-> rad]
IntReal(i) == Norm(i, 1, 1)
Inf(sign) == [n |-> sign, d |-> 0, rad |-> 1]
IsPositive(v) == v.n > 0

\* np.sqrt(d2) for an integer d2 >= 0
Sqrt(d2) ==
    IF d2 = 0 THEN Zero
    ELSE LET s == SquarePart(d2)
         IN  [n |-> s, d |-> 1, rad |-> d2 \div (s * s)]

\* v / k for an integer k > 0
RealDivInt(v, k) == Norm(v.n, v.d * k, v.rad)

\* i / v for an integer i and a real v > 0:
\* i / ((n/d) sqrt(rad)) = (i*d / (n*rad)) sqrt(rad)
IntDivReal(i, v) == Norm(i * v.d, v.n * v.rad, v.rad)

\* rational numbers (rad = 1): product, sum, quotient by a positive one
RatMul(a, b) == Norm(a.n * b.n, a.d * b.d, 1)
RatAdd(a, b) == Norm(a.n * b.d + b.n * a.d, a.d * b.d, 1)
RatDiv(a, b) == Norm(a.n * b.d, a.d * b.n, 1)
RatNeg(a) == [a EXCEPT !.n = -a.n]

Double(v) == Norm(2 * v.n, v.d, v.rad)
Half(v) == Norm(v.n, 2 * v.d, v.rad)

-----------------------------------------------------------------------------
(* State *)

VARIABLES
    pc,                 \* where the program is
    caller,             \* who called select_roi
    cap_open,           \* the capture handle is open (not yet released)
    pixels_per_mm,      \* main: the session's calibration ratio
    cs_pixels_per_mm,   \* calibrate_system: its local pixels_per_mm
    ref_points,         \* calibrate_system: the measurement's points
    callback_set,       \* the Calibration window has mouse_callback installed
    lbutton,            \* the left mouse button is held down
    size_config,        \* the content of size_config.json
    bbox,               \* the detection box handed to calculate_size
    size_mm,            \* what calculate_size returned for it
    points,             \* select_roi: the points clicked so far
    picked,             \* select_roi: the four points as confirmed
    roi_config,         \* the ROI configuration select_roi returned
    roi_file,           \* the content of roi_config.json
    warped_roi,         \* main: its local warped_roi, the last rectified image
    detected_on,        \* the image the last detection ran on
    warped_shown,       \* main: the last iteration updated the ROI window
    shown,              \* g.py: the frame raised last
    highlighted,        \* g.py: per frame, its highlighted navigation buttons
    timers,             \* g.py: the feed loops with a pending after() callback
    feed_ret,           \* g.py: per feed loop, ret of its last cap.read()
    src_point,          \* a point of the frame, in 1/SubPixel pixel
    unwarped            \* what unwarp_coordinates returned for its image

vars == <<pc, caller, cap_open, pixels_per_mm, cs_pixels_per_mm, ref_points,
          callback_set, lbutton, size_config, bbox, size_mm, points, picked,
          roi_config, roi_file, warped_roi, detected_on, warped_shown,
          shown, highlighted, timers, feed_ret, src_point, unwarped>>

loop_vars == <<warped_roi, detected_on, warped_shown>>
gui_vars == <<shown, highlighted, timers, feed_ret>>
warp_vars == <<src_point, unwarped>>
size_vars == <<pixels_per_mm, cs_pixels_per_mm, ref_points, callback_set,
               lbutton, size_config, bbox, size_mm>>
roi_vars == <<points, picked, roi_config, roi_file>>

-----------------------------------------------------------------------------
(* Calibration store (Size.py) *)

\* A ratio in memory: its value and whether it is a numpy float64 (a
\* measurement) or a Python float (the default, or read from JSON).
Ratio(v, np) == [kind |-> "ratio", val |-> v, np |-> np]
NoRatio == [kind |-> "None", val |-> Zero, np |-> FALSE]
DefaultRatio == Ratio(IntReal(10), FALSE)

\* size_config.json is missing, unreadable as JSON, or holds a number.
FileMissing == [kind |-> "missing", val |-> Zero]
FileCorrupt == [kind |-> "corrupt", val |-> Zero]
FileNumber(v) == [kind |-> "number", val |-> v]
FileExists(file) == file.kind # "missing"

\* mutant: the parse is not guarded by try/except
load_calibration_config_Unguarded(file) ==
    IF ~FileExists(file) THEN DefaultRatio
    ELSE IF file.kind = "number" THEN Ratio(file.val, FALSE)
    ELSE [kind |-> "raised", val |-> Zero, np |-> FALSE]

load_calibration_config(file) ==
    IF FileExists(file) /\ file.kind = "number" THEN Ratio(file.val, FALSE)
    ELSE DefaultRatio

\* mutant: the record is written with two decimals dropped to an integer
save_calibration_config_Truncated(r) ==
    FileNumber(IF r.val.d = 0 THEN r.val ELSE IntReal(r.val.n \div r.val.d))

\* the file after save_calibration_config(r) when the write succeeds
save_calibration_config(r) == FileNumber(r.val)

-----------------------------------------------------------------------------
(* calculate_size (Size.py) *)

\* int(coord): truncation toward zero of a coordinate given in 1/SubPixel
IntTrunc(c) == IF c >= 0 THEN c \div SubPixel ELSE -((-c) \div SubPixel)

\* the number of elements of a[start:stop] for a of length n
SliceLen(n, start, stop) ==
    LET norm(i) == IF i < 0 THEN Max(i + n, 0) ELSE Min(i, n)
    IN  Max(norm(stop) - norm(start), 0)

\* mutant: multiplies by the ratio
DivideByRatio_Times(px, ppm) == Norm(px * ppm.val.n, ppm.val.d, ppm.val.rad)

\* px / pixels_per_mm; a numpy float64 zero divides to +-inf
DivideByRatio(px, ppm) ==
    IF ppm.val = Zero THEN Inf(IF px < 0 THEN -1 ELSE 1)
    ELSE IntDivReal(px, ppm.val)

\* what calculate_size returns (err = ""), or the exception it raises
Returned(w, h) == [err |-> "", w |-> w, h |-> h]
Raised(e) == [err |-> e, w |-> Zero, h |-> Zero]
NoSize == [err |-> "None", w |-> Zero, h |-> Zero]

\* mutant: the empty region is not checked for
calculate_size_NoEmptyCheck(img, box, ppm_arg) ==
    LET ppm == IF ppm_arg = NoRatio
               THEN load_calibration_config(size_config)
               ELSE ppm_arg
    IN  IF ppm.val = Zero /\ ~ppm.np THEN Raised("ZeroDivisionError")
        ELSE Returned(DivideByRatio(IntTrunc(box[3]) - IntTrunc(box[1]), ppm),
                      DivideByRatio(IntTrunc(box[4]) - IntTrunc(box[2]), ppm))

calculate_size(img, box, ppm_arg) ==
    LET ppm == IF ppm_arg = NoRatio
               THEN IF FileExists(size_config)
                    THEN load_calibration_config(size_config)
                    ELSE DefaultRatio
               ELSE ppm_arg
        x1 == IntTrunc(box[1])
        y1 == IntTrunc(box[2])
        x2 == IntTrunc(box[3])
        y2 == IntTrunc(box[4])
        roi_size == SliceLen(img.h, y1, y2) * SliceLen(img.w, x1, x2)
        height_px == y2 - y1
        width_px == x2 - x1
    IN  IF roi_size = 0 THEN Returned(Zero, Zero)
        ELSE IF ppm.val = Zero /\ ~ppm.np THEN Raised("ZeroDivisionError")
        ELSE Returned(DivideByRatio(width_px, ppm),
                      DivideByRatio(height_px, ppm))

Frame == [w |-> FrameW, h |-> FrameH]
NoBox == <<0, 0, 0, 0>>

\* images: the captured frame, the rectified ROI, none
RawImage == [kind |-> "frame", w |-> FrameW, h |-> FrameH]
WarpedImage(cfg) == [kind |-> "warped", w |-> cfg.width, h |-> cfg.height]
NoImage == [kind |-> "None", w |-> 0, h |-> 0]

\* outside main's loop its locals do not exist; outside g.py there is no GUI
NoLoop == warped_roi = NoImage /\ detected_on = NoImage /\ warped_shown = FALSE
NoGui == shown = "None" /\ highlighted = <<>> /\ timers = {} /\ feed_ret = <<>>
\* no point has been mapped
NoPoint == <<0, 0>>
NoWarp == src_point = NoPoint /\ unwarped = NoPoint

-----------------------------------------------------------------------------
(* ROI selection (roi.py) *)

\* a ROI configuration, or None
RoiConfig(pts, w, h) == [kind |-> "roi", points |-> pts, width |-> w, height |-> h]
NoRoi == [kind |-> "None", points |-> <<>>, width |-> 0, height |-> 0]

\* roi_config.json is missing, unreadable as JSON, or holds a configuration
RoiFileMissing == [kind |-> "missing", cfg |-> NoRoi]
RoiFileCorrupt == [kind |-> "corrupt", cfg |-> NoRoi]
RoiFileHolding(cfg) == [kind |-> "config", cfg |-> cfg]

RoiGrid == {<<i * RoiStep, j * RoiStep>> : i \in 1..MaxRoi, j \in 1..MaxRoi}

\* np.argmin / np.argmax: the first index of the least / greatest value
ArgMin(f) ==
    CHOOSE i \in DOMAIN f :
        /\ \A j \in DOMAIN f : f[i] <= f[j]
        /\ \A j \in DOMAIN f : j < i => f[j] > f[i]
ArgMax(f) ==
    CHOOSE i \in DOMAIN f :
        /\ \A j \in DOMAIN f : f[i] >= f[j]
        /\ \A j \in DOMAIN f : j < i => f[j] < f[i]

\* pts.sum(axis=1): x + y of each point
PointSums(pts) == [i \in DOMAIN pts |-> pts[i][1] + pts[i][2]]
\* mutant: the columns subtracted the other way round, x - y
PointDiffs_XminusY(pts) == [i \in DOMAIN pts |-> pts[i][1] - pts[i][2]]
\* np.diff(pts, axis=1): y - x of each point
PointDiffs(pts) == [i \in DOMAIN pts |-> pts[i][2] - pts[i][1]]

\* mutant: the points are left in the order they were clicked
order_points_AsClicked(pts) == pts

order_points(pts) ==
    LET s == PointSums(pts)
        diff == PointDiffs(pts)
    IN  <<pts[ArgMin(s)], pts[ArgMin(diff)], pts[ArgMax(s)], pts[ArgMax(diff)]>>

\* int(np.sqrt((q.x - p.x)**2 + (q.y - p.y)**2))
EdgeLen(p, q) ==
    Isqrt((q[1] - p[1]) * (q[1] - p[1]) + (q[2] - p[2]) * (q[2] - p[2]))

\* mutant: the lesser of the two edges
max_width_Min(pts) == Min(EdgeLen(pts[1], pts[2]), EdgeLen(pts[4], pts[3]))

\* lines 85-87 and 89-91, for the ordered points
max_width(pts) == Max(EdgeLen(pts[1], pts[2]), EdgeLen(pts[4], pts[3]))
max_height(pts) == Max(EdgeLen(pts[1], pts[4]), EdgeLen(pts[2], pts[3]))

\* lines 79-101: the configuration built from the four clicked points
BuildRoiConfig(clicked) ==
    LET pts == order_points(clicked)
    IN  RoiConfig(pts, max_width(pts), max_height(pts))

\* entry of calibrate_system: Size.py line 79
EnterCalibration ==
    /\ pc' = "cs_loop"
    /\ cs_pixels_per_mm' = DefaultRatio
    /\ ref_points' = <<>>
    /\ callback_set' = FALSE

\* select_roi returns r to its caller: roi.py's script (line 225), main
\* before calibration (Detectionwithsize.py lines 27-34), main's loop
\* (line 131), or run_roi_calibration, which keeps r when it is not None
\* (g.py lines 577-583)
ReturnFromSelect(r) ==
    /\ roi_config' = IF caller = "gui" /\ r = NoRoi THEN roi_config ELSE r
    /\ points' = <<>>
    /\ IF caller = "main_init"
       THEN /\ EnterCalibration
            /\ UNCHANGED <<pixels_per_mm, lbutton, size_config, bbox, size_mm>>
       ELSE /\ pc' = IF caller = "roi" THEN "roi_done"
                     ELSE IF caller = "gui" THEN "gui_idle" ELSE "main_loop"
            /\ UNCHANGED size_vars

\* the exception of a failed write leaves select_roi and its caller; Tk
\* reports the exception of a button command and goes on
RaiseFromSelect ==
    /\ points' = <<>>
    /\ pc' = IF caller = "gui" THEN "gui_idle" ELSE "crashed"
    /\ UNCHANGED roi_config
    /\ UNCHANGED size_vars

\* lines 17-20: the frame read fails, select_roi returns None
SelReadFail ==
    /\ pc = "sel_start"
    /\ ReturnFromSelect(NoRoi)
    /\ UNCHANGED <<caller, loop_vars, gui_vars, warp_vars, cap_open, picked, roi_file>>

\* lines 17-62: a frame is captured and the selection window opens
SelBegin ==
    /\ pc = "sel_start"
    /\ points' = <<>>
    /\ pc' = "sel_wait"
    /\ UNCHANGED <<caller, loop_vars, gui_vars, warp_vars, cap_open, picked, roi_config, roi_file>>
    /\ UNCHANGED size_vars

\* mouse_callback, EVENT_LBUTTONDOWN (lines 32-34).  The code sets no limit
\* on the number of points; the model stops after one more than RoiCorners.
SelClick(p) ==
    /\ pc = "sel_wait"
    /\ Len(points) <= RoiCorners
    /\ points' = Append(points, p)
    /\ UNCHANGED <<pc, caller, loop_vars, gui_vars, warp_vars, cap_open, picked, roi_config, roi_file>>
    /\ UNCHANGED size_vars

\* lines 71-75: Escape
SelEscape ==
    /\ pc = "sel_wait"
    /\ points' = <<>>
    /\ UNCHANGED <<pc, caller, loop_vars, gui_vars, warp_vars, cap_open, picked, roi_config, roi_file>>
    /\ UNCHANGED size_vars

\* lines 67-71: any other key, no key, or Enter without exactly four points
SelOtherKey ==
    /\ pc = "sel_wait"
    /\ UNCHANGED vars

\* mutant: Enter confirms four points or more
SelEnter_FourOrMore ==
    /\ pc = "sel_wait"
    /\ Len(points) >= RoiCorners
    /\ picked' = points
    /\ LET roi == BuildRoiConfig(points)
       IN  /\ roi_file' = RoiFileHolding(roi)
           /\ ReturnFromSelect(roi)
    /\ UNCHANGED <<caller, loop_vars, gui_vars, warp_vars, cap_open>>

\* lines 69-70, 77-108: Enter with four points; the record is written
SelEnter ==
    /\ pc = "sel_wait"
    /\ Len(points) = RoiCorners
    /\ picked' = points
    /\ LET roi == BuildRoiConfig(points)
       IN  /\ roi_file' = RoiFileHolding(roi)
           /\ ReturnFromSelect(roi)
    /\ UNCHANGED <<caller, loop_vars, gui_vars, warp_vars, cap_open>>

\* lines 69-70, 77-105: Enter with four points; writing the record raises,
\* with the file left as it was (open failed) or truncated
SelEnterWriteFails(left) ==
    /\ pc = "sel_wait"
    /\ Len(points) = RoiCorners
    /\ picked' = points
    /\ roi_file' = left
    /\ RaiseFromSelect
    /\ UNCHANGED <<caller, loop_vars, gui_vars, warp_vars, cap_open>>

\* select_roi from its call to its return, for the session of main: a frame
\* is captured, the four points of clicked are clicked and Enter is pressed
\* (lines 17-108)
SelectWhole(clicked) ==
    /\ pc = "sel_start"
    /\ picked' = clicked
    /\ LET roi == BuildRoiConfig(clicked)
       IN  /\ roi_file' = RoiFileHolding(roi)
           /\ ReturnFromSelect(roi)
    /\ UNCHANGED <<caller, loop_vars, gui_vars, warp_vars, cap_open>>

\* the same, with the write of the record raising (lines 17-105)
SelectWholeWriteFails(clicked, left) ==
    /\ pc = "sel_start"
    /\ picked' = clicked
    /\ roi_file' = left
    /\ RaiseFromSelect
    /\ UNCHANGED <<caller, loop_vars, gui_vars, warp_vars, cap_open>>

\* load_roi_config (lines 132-145)
load_roi_config(file) == IF file.kind = "config" THEN file.cfg ELSE NoRoi

\* cv2.getPerspectiveTransform has no solution, or np.linalg.inv none, when
\* three of the four source points lie on a line (two equal points
\* included) or the destination rectangle (0,0)-(width-1,height-1) is flat
SingularTransform(cfg) ==
    \/ \E i, j, k \in 1..4 :
           /\ i < j /\ j < k
           /\ (cfg.points[j][1] - cfg.points[i][1]) * (cfg.points[k][2] - cfg.points[i][2])
                = (cfg.points[j][2] - cfg.points[i][2]) * (cfg.points[k][1] - cfg.points[i][1])
    \/ cfg.width - 1 = 0
    \/ cfg.height - 1 = 0

\* roi.py run as a script (lines 214-225)
InitRoi ==
    /\ pc = "sel_start"
    /\ caller = "roi"
    /\ cap_open = TRUE
    /\ NoLoop
    /\ NoGui
    /\ NoWarp
    /\ pixels_per_mm = NoRatio
    /\ cs_pixels_per_mm = NoRatio
    /\ ref_points = <<>>
    /\ callback_set = FALSE
    /\ lbutton = FALSE
    /\ size_config = FileMissing
    /\ bbox = NoBox
    /\ size_mm = NoSize
    /\ points = <<>>
    /\ picked = <<>>
    /\ roi_config = NoRoi
    /\ roi_file \in {RoiFileMissing, RoiFileCorrupt}

NextRoi ==
    \/ SelReadFail
    \/ SelBegin
    \/ \E p \in RoiGrid : SelClick(p)
    \/ SelEscape
    \/ SelOtherKey
    \/ SelEnter
    \/ \E left \in {roi_file, RoiFileCorrupt} : SelEnterWriteFails(left)

SpecRoi == InitRoi /\ [][NextRoi]_vars

-----------------------------------------------------------------------------
(* calibrate_system (Size.py).  pc is                                      *)
(*   "cs_loop"     at the top of the outer loop (line 81)                  *)
(*   "cs_measure"  in the loop that waits for the two points (line 122)    *)
(*   "cs_show"     showing the result for two seconds (line 137)           *)
(* Mouse events reach mouse_callback inside cv2.waitKey, that is at each   *)
(* of these places once the callback is installed.                         *)

PickGrid == {<<i * PickStep, j * PickStep>> : i \in 0..MaxPick, j \in 0..MaxPick}

\* (x2-x1)**2 + (y2-y1)**2
Dist2(p, q) == (q[1] - p[1]) * (q[1] - p[1]) + (q[2] - p[2]) * (q[2] - p[2])

\* mutant: the square root is forgotten
MeasuredRatio_NoSqrt(p, q) ==
    Ratio(RealDivInt(IntReal(Dist2(p, q)), known_size_mm), TRUE)

\* np.sqrt(...) / known_size_mm, a numpy float64
MeasuredRatio(p, q) == Ratio(RealDivInt(Sqrt(Dist2(p, q)), known_size_mm), TRUE)

InCalibration == pc \in {"cs_loop", "cs_measure", "cs_show"}

\* lines 146-147, and the assignment in main (lines 34, 129) or in
\* run_size_calibration (g.py lines 655-658)
ReturnFromCalibration(r) ==
    /\ pc' = IF caller = "gui" THEN "gui_idle" ELSE "main_loop"
    /\ pixels_per_mm' = r
    /\ cs_pixels_per_mm' = NoRatio
    /\ ref_points' = <<>>
    /\ callback_set' = FALSE

\* line 82-84: the frame read fails
CsReadFail ==
    /\ pc = "cs_loop"
    /\ ReturnFromCalibration(cs_pixels_per_mm)
    /\ UNCHANGED <<caller, loop_vars, gui_vars, warp_vars, cap_open, lbutton, size_config, bbox, size_mm>>
    /\ UNCHANGED roi_vars

\* line 93-119: 'c' starts a measurement
CsKeyC ==
    /\ pc = "cs_loop"
    /\ pc' = "cs_measure"
    /\ ref_points' = <<>>
    /\ callback_set' = TRUE
    /\ UNCHANGED <<caller, loop_vars, gui_vars, warp_vars, cap_open, pixels_per_mm, cs_pixels_per_mm, lbutton,
                   size_config, bbox, size_mm>>
    /\ UNCHANGED roi_vars

\* line 141-144: 'q' skips calibration
CsKeyQ ==
    /\ pc = "cs_loop"
    /\ ReturnFromCalibration(load_calibration_config(size_config))
    /\ UNCHANGED <<caller, loop_vars, gui_vars, warp_vars, cap_open, lbutton, size_config, bbox, size_mm>>
    /\ UNCHANGED roi_vars

\* line 92: any other key, or none
CsNoKey ==
    /\ pc = "cs_loop"
    /\ UNCHANGED vars

\* mouse_callback, EVENT_LBUTTONDOWN (lines 100-102)
MouseDown(p) ==
    /\ InCalibration
    /\ ~lbutton
    /\ lbutton' = TRUE
    /\ ref_points' = IF callback_set THEN <<p>> ELSE ref_points
    /\ UNCHANGED <<pc, caller, loop_vars, gui_vars, warp_vars, cap_open, pixels_per_mm, cs_pixels_per_mm,
                   callback_set, size_config, bbox, size_mm>>
    /\ UNCHANGED roi_vars

\* mouse_callback, EVENT_LBUTTONUP (lines 106-117)
MouseUp(p) ==
    /\ InCalibration
    /\ lbutton
    /\ lbutton' = FALSE
    /\ IF callback_set /\ ref_points # <<>>
       THEN LET pts == Append(ref_points, p)
                distance2 == Dist2(pts[1], pts[2])
            IN  /\ ref_points' = pts
                /\ cs_pixels_per_mm' =
                       IF distance2 > 0 THEN MeasuredRatio(pts[1], pts[2])
                       ELSE cs_pixels_per_mm
       ELSE UNCHANGED <<ref_points, cs_pixels_per_mm>>
    /\ UNCHANGED <<pc, caller, loop_vars, gui_vars, warp_vars, cap_open, pixels_per_mm, callback_set,
                   size_config, bbox, size_mm>>
    /\ UNCHANGED roi_vars

\* lines 129-136: the measurement is complete
Measured ==
    /\ cs_pixels_per_mm' = MeasuredRatio(ref_points[1], ref_points[2])
    /\ pc' = "cs_show"

\* line 122: two points are there, the waiting loop ends
MeasureDone ==
    /\ pc = "cs_measure"
    /\ Len(ref_points) = 2
    /\ Measured
    /\ UNCHANGED <<caller, loop_vars, gui_vars, warp_vars, cap_open, pixels_per_mm, ref_points, callback_set,
                   lbutton, size_config, bbox, size_mm>>
    /\ UNCHANGED roi_vars

\* lines 124-127: 'q' while waiting; the events of the same waitKey may
\* have completed the two points
MeasureKeyQ ==
    /\ pc = "cs_measure"
    /\ IF Len(ref_points) = 2
       THEN Measured
       ELSE /\ cs_pixels_per_mm' = load_calibration_config(size_config)
            /\ pc' = "cs_loop"
    /\ UNCHANGED <<caller, loop_vars, gui_vars, warp_vars, cap_open, pixels_per_mm, ref_points, callback_set,
                   lbutton, size_config, bbox, size_mm>>
    /\ UNCHANGED roi_vars

\* mutant: the exception of a failed write leaves calibrate_system
CsSave_Propagates(written) ==
    /\ pc = "cs_show"
    /\ size_config' = written
    /\ IF written = save_calibration_config(cs_pixels_per_mm)
       THEN ReturnFromCalibration(cs_pixels_per_mm)
       ELSE /\ pc' = "crashed"
            /\ UNCHANGED <<pixels_per_mm, cs_pixels_per_mm, ref_points, callback_set>>
    /\ UNCHANGED <<caller, loop_vars, gui_vars, warp_vars, cap_open, lbutton, bbox, size_mm>>
    /\ UNCHANGED roi_vars

\* line 138 (save_calibration_config, lines 21-29) and the return.  A write
\* that fails leaves the file as it was (open failed) or truncated.
CsSave(written) ==
    /\ pc = "cs_show"
    /\ size_config' = written
    /\ ReturnFromCalibration(cs_pixels_per_mm)
    /\ UNCHANGED <<caller, loop_vars, gui_vars, warp_vars, cap_open, lbutton, bbox, size_mm>>
    /\ UNCHANGED roi_vars

SaveOutcomes(r) == {save_calibration_config(r), size_config, FileCorrupt}

-----------------------------------------------------------------------------
(* main (Detectionwithsize.py) *)

\* detection boxes of the session: top-left corner at the frame's origin
BoxCoords(m) ==
    {(i * BoxStep) * SubPixel + f : i \in (-1)..m, f \in {0, 1}}
Boxes == {<<x1, y1, x2, y2>> : x1 \in BoxCoords(MaxBoxX), y1 \in BoxCoords(MaxBoxY),
                               x2 \in BoxCoords(MaxBoxX), y2 \in BoxCoords(MaxBoxY)}
MainBoxes == {b \in Boxes : b[1] = 0 /\ b[2] = 0}

\* the selections of the session: the corners of the ROI grid clicked in
\* order, and one corner clicked four times
GridCorners ==
    <<<<RoiStep, RoiStep>>, <<MaxRoi * RoiStep, RoiStep>>,
      <<MaxRoi * RoiStep, MaxRoi * RoiStep>>, <<RoiStep, MaxRoi * RoiStep>>>>
MainSelections == {GridCorners, [i \in 1..4 |-> GridCorners[1]]}

\* lines 14-19: the webcam does not open, exit()
MainOpenFails ==
    /\ pc = "main_start"
    /\ pc' = "exited"
    /\ cap_open' = FALSE
    /\ UNCHANGED <<caller, points, picked, roi_config, roi_file>>
    /\ UNCHANGED <<size_vars, loop_vars, gui_vars>>
    /\ UNCHANGED warp_vars

\* lines 14-34: the webcam opens; with a ROI record calibration starts,
\* without one select_roi is called first
MainStart ==
    /\ pc = "main_start"
    /\ roi_config' = load_roi_config(roi_file)
    /\ IF roi_config' = NoRoi
       THEN /\ pc' = "sel_start"
            /\ caller' = "main_init"
            /\ UNCHANGED <<cs_pixels_per_mm, ref_points, callback_set>>
       ELSE /\ EnterCalibration
            /\ UNCHANGED caller
    /\ UNCHANGED <<loop_vars, gui_vars, warp_vars, cap_open, pixels_per_mm, lbutton, size_config, bbox,
                   size_mm, points, picked, roi_file>>

\* lines 54-66: the image detection runs on, the rectified ROI or the frame
\* lines 58-59: np.linalg.inv raises LinAlgError
TransformRaises == roi_config.kind = "roi" /\ SingularTransform(roi_config)

\* mutant: a rectified image left over from an earlier iteration is used
DetectionImage_Leftover ==
    IF roi_config.kind = "roi" THEN WarpedImage(roi_config)
    ELSE IF warped_roi # NoImage THEN warped_roi
    ELSE RawImage

DetectionImage ==
    IF roi_config.kind = "roi" THEN WarpedImage(roi_config) ELSE RawImage

\* lines 54-57, 121-122: warped_roi is assigned when a ROI is configured,
\* and the ROI window is updated when a ROI is configured and warped_roi
\* exists; raised says the iteration ended in an exception before that
MainImages(raised) ==
    /\ warped_roi' = IF roi_config.kind = "roi" THEN WarpedImage(roi_config)
                     ELSE warped_roi
    /\ detected_on' = IF TransformRaises THEN detected_on ELSE DetectionImage
    /\ warped_shown' = (~raised /\ roi_config.kind = "roi" /\ warped_roi' # NoImage)

\* lines 46-49, 134-135: the frame read fails
MainReadFail ==
    /\ pc = "main_loop"
    /\ pc' = "released"
    /\ cap_open' = FALSE
    /\ UNCHANGED <<caller, lbutton, bbox, size_mm, size_config, pixels_per_mm,
                   cs_pixels_per_mm, ref_points, callback_set>>
    /\ UNCHANGED <<roi_vars, loop_vars, gui_vars>>
    /\ UNCHANGED warp_vars

\* lines 46-122: a frame in which the detector finds box b above threshold
MainDetect(b) ==
    /\ pc = "main_loop"
    /\ IF TransformRaises
       THEN /\ bbox' = NoBox
            /\ size_mm' = Raised("LinAlgError")
       ELSE /\ bbox' = b
            /\ size_mm' = calculate_size(DetectionImage, b, pixels_per_mm)
    /\ pc' = IF size_mm'.err = "" THEN "main_key" ELSE "crashed"
    /\ MainImages(size_mm'.err # "")
    /\ UNCHANGED <<caller, gui_vars, warp_vars, cap_open, lbutton, size_config, pixels_per_mm,
                   cs_pixels_per_mm, ref_points, callback_set>>
    /\ UNCHANGED roi_vars

\* lines 46-122: a frame without a detection above threshold
MainNoDetect ==
    /\ pc = "main_loop"
    /\ bbox' = NoBox
    /\ size_mm' = IF TransformRaises THEN Raised("LinAlgError") ELSE NoSize
    /\ pc' = IF TransformRaises THEN "crashed" ELSE "main_key"
    /\ MainImages(TransformRaises)
    /\ UNCHANGED <<caller, gui_vars, warp_vars, cap_open, lbutton, size_config, pixels_per_mm,
                   cs_pixels_per_mm, ref_points, callback_set>>
    /\ UNCHANGED roi_vars

\* lines 125-127, 134-135: 'q'
MainKeyQ ==
    /\ pc = "main_key"
    /\ pc' = "released"
    /\ cap_open' = FALSE
    /\ UNCHANGED <<caller, lbutton, bbox, size_mm, size_config,
                   pixels_per_mm, cs_pixels_per_mm, ref_points, callback_set>>
    /\ UNCHANGED <<roi_vars, loop_vars, gui_vars>>
    /\ UNCHANGED warp_vars

\* lines 128-129: 'c'
MainKeyC ==
    /\ pc = "main_key"
    /\ EnterCalibration
    /\ bbox' = NoBox
    /\ size_mm' = NoSize
    /\ UNCHANGED <<caller, loop_vars, gui_vars, warp_vars, cap_open, pixels_per_mm, lbutton, size_config>>
    /\ UNCHANGED roi_vars

\* lines 130-131: 'r'
MainKeyR ==
    /\ pc = "main_key"
    /\ pc' = "sel_start"
    /\ caller' = "main_loop"
    /\ bbox' = NoBox
    /\ size_mm' = NoSize
    /\ UNCHANGED <<loop_vars, gui_vars, warp_vars, cap_open, pixels_per_mm, cs_pixels_per_mm, ref_points,
                   callback_set, lbutton, size_config>>
    /\ UNCHANGED roi_vars

\* line 125: any other key, or none
MainNoKey ==
    /\ pc = "main_key"
    /\ pc' = "main_loop"
    /\ bbox' = NoBox
    /\ size_mm' = NoSize
    /\ UNCHANGED <<caller, loop_vars, gui_vars, warp_vars, cap_open, lbutton, size_config, pixels_per_mm,
                   cs_pixels_per_mm, ref_points, callback_set>>
    /\ UNCHANGED roi_vars

\* the ROI record a session finds: none, an unreadable one, or the one an
\* earlier selection of the grid's corners saved
InitialRoiFiles ==
    {RoiFileMissing, RoiFileCorrupt, RoiFileHolding(BuildRoiConfig(GridCorners))}

\* the record a session finds: none, an unreadable one, or the ratio that a
\* measurement along the grid's diagonal saved earlier
InitialFiles ==
    {FileMissing, FileCorrupt,
     save_calibration_config(MeasuredRatio(<<0, 0>>, <<PickStep, PickStep>>))}

Init ==
    /\ pc = "main_start"
    /\ caller = "main"
    /\ cap_open = TRUE
    /\ NoLoop
    /\ NoGui
    /\ NoWarp
    /\ pixels_per_mm = NoRatio
    /\ cs_pixels_per_mm = NoRatio
    /\ ref_points = <<>>
    /\ callback_set = FALSE
    /\ lbutton \in BOOLEAN
    /\ size_config \in InitialFiles
    /\ bbox = NoBox
    /\ size_mm = NoSize
    /\ points = <<>>
    /\ picked = <<>>
    /\ roi_config = NoRoi
    /\ roi_file \in InitialRoiFiles

Next ==
    \/ MainOpenFails
    \/ MainStart
    \/ SelReadFail
    \/ \E sel \in MainSelections : SelectWhole(sel)
    \/ \E sel \in MainSelections, left \in {roi_file, RoiFileCorrupt} :
           SelectWholeWriteFails(sel, left)
    \/ CsReadFail
    \/ CsKeyC
    \/ CsKeyQ
    \/ CsNoKey
    \/ \E p \in PickGrid : MouseDown(p)
    \/ \E p \in PickGrid : MouseUp(p)
    \/ MeasureDone
    \/ MeasureKeyQ
    \/ \E f \in SaveOutcomes(cs_pixels_per_mm) : CsSave(f)
    \/ MainReadFail
    \/ \E b \in MainBoxes : MainDetect(b)
    \/ MainNoDetect
    \/ MainKeyQ
    \/ MainKeyC
    \/ MainKeyR
    \/ MainNoKey

Spec == Init /\ [][Next]_vars

-----------------------------------------------------------------------------
(* The GUI (g.py).  pc is "gui_start" before CVISApplication is built,     *)
(* "gui_idle" in Tk's mainloop, "closed" after the window is destroyed.    *)
(* roi_config is controller.roi_config (and CalibrationFrame1.roi_config), *)
(* pixels_per_mm is controller.pixels_per_mm, NoRatio while it is not set. *)

Frames ==
    {"CameraPreviewFrame", "SpecificationFrame", "CalibrationFrame1",
     "CalibrationFrame2", "LogsFrame"}

\* the keys of self.buttons (lines 142-171, 229)
Buttons == {"CameraPreviewFrame", "SpecificationFrame", "CalibrationFrame", "LogsFrame"}

\* the frames the navigation buttons raise (lines 142-171)
NavTargets == {"CameraPreviewFrame", "SpecificationFrame", "CalibrationFrame1", "LogsFrame"}

\* mutant: every frame is mapped to the button of its own name
frame_to_button_map_Identity(frame_name) == frame_name

\* lines 174-180
frame_to_button_map(frame_name) ==
    IF frame_name \in {"CalibrationFrame1", "CalibrationFrame2"}
    THEN "CalibrationFrame" ELSE frame_name

\* update_button_highlights (lines 239-265): the buttons of one frame that
\* are highlighted afterwards
update_button_highlights(current_frame) ==
    {btn_id \in Buttons : btn_id = frame_to_button_map(current_frame)}

\* show_frame (lines 68-75)
show_frame(frame_name) ==
    /\ shown' = frame_name
    /\ highlighted' = [f \in Frames |-> update_button_highlights(frame_name)]

Feeds == {"update_detection_feed", "update_roi_feed", "update_size_feed"}

\* CameraPreviewFrame.roi_config: read once from the controller, which has
\* no such attribute yet, and never assigned again (line 280)
PreviewRoi == NoRoi

\* the boxes the detector finds in the GUI's frames: an empty one, 100 x 50
GuiBoxes ==
    {<<0, 0, 0, 0>>, <<0, 0, 2 * BoxStep * SubPixel, BoxStep * SubPixel>>}

\* lines 330-341: the image update_detection_feed runs detection on, by
\* the ROI of CameraPreviewFrame
DetectionFeedImage ==
    IF PreviewRoi.kind = "roi" THEN WarpedImage(PreviewRoi) ELSE RawImage

\* lines 343-372: the size of box b on that image, with the controller's
\* ratio or, when it has none, the ratio of the record
DetectionFeedSize(b) ==
    calculate_size(DetectionFeedImage, b,
                   IF pixels_per_mm # NoRatio THEN pixels_per_mm
                   ELSE load_calibration_config(size_config))

\* CVISApplication.__init__ (lines 21-66): the capture is opened, the frames
\* are built, each feed reads its first frame and schedules itself, and
\* CameraPreviewFrame is shown.  An exception of the first detection ends
\* the program.
GuiStart(rets, b) ==
    /\ pc = "gui_start"
    /\ LET size == IF rets["update_detection_feed"] = "frame"
                   THEN DetectionFeedSize(b) ELSE NoSize
       IN  /\ size_mm' = IF size.err \in {"", "None"} THEN NoSize ELSE size
           /\ pc' = IF size_mm' = NoSize THEN "gui_idle" ELSE "crashed"
    /\ detected_on' = IF rets["update_detection_feed"] = "frame"
                      THEN DetectionFeedImage ELSE detected_on
    /\ feed_ret' = rets
    /\ timers' = Feeds
    /\ show_frame("CameraPreviewFrame")
    /\ UNCHANGED <<caller, warp_vars, cap_open, pixels_per_mm, cs_pixels_per_mm, ref_points,
                   callback_set, lbutton, size_config, bbox>>
    /\ UNCHANGED <<roi_vars, warped_roi, warped_shown>>

\* update_detection_feed (lines 325-411); an exception of calculate_size
\* leaves the callback before it schedules itself again
update_detection_feed(ret, b) ==
    /\ pc = "gui_idle"
    /\ "update_detection_feed" \in timers
    /\ feed_ret' = [feed_ret EXCEPT !["update_detection_feed"] = ret]
    /\ LET size == IF ret = "frame" THEN DetectionFeedSize(b) ELSE NoSize
       IN  /\ size_mm' = IF size.err \in {"", "None"} THEN size_mm ELSE size
           /\ timers' = IF size.err \in {"", "None"} THEN timers
                         ELSE timers \ {"update_detection_feed"}
    /\ detected_on' = IF ret = "frame" THEN DetectionFeedImage ELSE detected_on
    /\ UNCHANGED <<pc, caller, warp_vars, cap_open, pixels_per_mm, cs_pixels_per_mm,
                   ref_points, callback_set, lbutton, size_config, bbox,
                   shown, highlighted>>
    /\ UNCHANGED <<roi_vars, warped_roi, warped_shown>>

\* update_roi_feed (lines 585-600); what OpenCV does with the transform of
\* a degenerate quadrilateral is not determined here: the callback may
\* end in an exception, before it schedules itself again, or go on
update_roi_feed(ret, raises) ==
    /\ pc = "gui_idle"
    /\ "update_roi_feed" \in timers
    /\ raises => (ret = "frame" /\ roi_config.kind = "roi" /\ SingularTransform(roi_config))
    /\ feed_ret' = [feed_ret EXCEPT !["update_roi_feed"] = ret]
    /\ timers' = IF raises THEN timers \ {"update_roi_feed"} ELSE timers
    /\ UNCHANGED <<pc, caller, warp_vars, cap_open, shown, highlighted>>
    /\ UNCHANGED <<size_vars, roi_vars, loop_vars>>

\* update_size_feed (lines 660-669)
update_size_feed(ret) ==
    /\ pc = "gui_idle"
    /\ "update_size_feed" \in timers
    /\ feed_ret' = [feed_ret EXCEPT !["update_size_feed"] = ret]
    /\ UNCHANGED <<pc, caller, warp_vars, cap_open, shown, highlighted, timers>>
    /\ UNCHANGED <<size_vars, roi_vars, loop_vars>>

\* a navigation button (lines 142-171), Next on CalibrationFrame1 (line
\* 565) or Finish on CalibrationFrame2 (line 643)
ShowFrame(frame_name) ==
    /\ pc = "gui_idle"
    /\ \/ frame_name \in NavTargets
       \/ shown = "CalibrationFrame1" /\ frame_name = "CalibrationFrame2"
       \/ shown = "CalibrationFrame2" /\ frame_name = "CameraPreviewFrame"
    /\ show_frame(frame_name)
    /\ UNCHANGED <<pc, caller, warp_vars, cap_open, timers, feed_ret>>
    /\ UNCHANGED <<size_vars, roi_vars, loop_vars>>

\* run_roi_calibration (lines 575-577): select_roi is called
run_roi_calibration ==
    /\ pc = "gui_idle"
    /\ shown = "CalibrationFrame1"
    /\ pc' = "sel_start"
    /\ UNCHANGED <<caller, warp_vars, cap_open>>
    /\ UNCHANGED <<size_vars, roi_vars, loop_vars, gui_vars>>

\* run_size_calibration (lines 653-655): calibrate_system is called
run_size_calibration ==
    /\ pc = "gui_idle"
    /\ shown = "CalibrationFrame2"
    /\ EnterCalibration
    /\ UNCHANGED <<caller, warp_vars, cap_open, pixels_per_mm, lbutton, size_config, bbox,
                   size_mm>>
    /\ UNCHANGED <<roi_vars, loop_vars, gui_vars>>

\* the window is closed: the frames are destroyed, which releases the
\* capture (lines 413-416, 602-605, 671-674) and cancels the callbacks
GuiClose ==
    /\ pc = "gui_idle"
    /\ pc' = "closed"
    /\ cap_open' = FALSE
    /\ timers' = {}
    /\ UNCHANGED <<caller, shown, highlighted, feed_ret>>
    /\ UNCHANGED <<size_vars, roi_vars, loop_vars>>
    /\ UNCHANGED warp_vars

InitGui ==
    /\ pc = "gui_start"
    /\ caller = "gui"
    /\ cap_open = TRUE
    /\ NoLoop
    /\ NoGui
    /\ NoWarp
    /\ pixels_per_mm = NoRatio
    /\ cs_pixels_per_mm = NoRatio
    /\ ref_points = <<>>
    /\ callback_set = FALSE
    /\ lbutton = FALSE
    /\ size_config \in InitialFiles
    /\ bbox = NoBox
    /\ size_mm = NoSize
    /\ points = <<>>
    /\ picked = <<>>
    /\ roi_config = NoRoi
    /\ roi_file = RoiFileMissing

FeedRets == {"frame", "failed"}

\* the pixels picked in the GUI's size calibration
GuiPicks == {<<0, 0>>, <<PickStep, 0>>}

NextGui ==
    \/ \E rets \in [Feeds -> FeedRets], b \in GuiBoxes : GuiStart(rets, b)
    \/ \E ret \in FeedRets, b \in GuiBoxes : update_detection_feed(ret, b)
    \/ \E ret \in FeedRets, raises \in BOOLEAN : update_roi_feed(ret, raises)
    \/ \E ret \in FeedRets : update_size_feed(ret)
    \/ \E f \in Frames : ShowFrame(f)
    \/ run_roi_calibration
    \/ SelReadFail
    \/ \E sel \in MainSelections : SelectWhole(sel)
    \/ \E sel \in MainSelections, left \in {roi_file, RoiFileCorrupt} :
           SelectWholeWriteFails(sel, left)
    \/ run_size_calibration
    \/ CsReadFail
    \/ CsKeyC
    \/ CsKeyQ
    \/ CsNoKey
    \/ \E p \in GuiPicks : MouseDown(p)
    \/ \E p \in GuiPicks : MouseUp(p)
    \/ MeasureDone
    \/ MeasureKeyQ
    \/ \E f \in SaveOutcomes(cs_pixels_per_mm) : CsSave(f)
    \/ GuiClose

SpecGui == InitGui /\ [][NextGui]_vars

-----------------------------------------------------------------------------
(* The perspective transform (roi.py), for ROIs that are upright           *)
(* rectangles, where the transform is u = sx*x + tx, v = sy*y + ty.        *)

Upright(cfg) ==
    /\ cfg.kind = "roi"
    /\ cfg.points[1][1] = cfg.points[4][1] /\ cfg.points[2][1] = cfg.points[3][1]
    /\ cfg.points[1][2] = cfg.points[2][2] /\ cfg.points[3][2] = cfg.points[4][2]
    /\ cfg.points[1][1] < cfg.points[2][1] /\ cfg.points[1][2] < cfg.points[4][2]
    /\ cfg.width > 1 /\ cfg.height > 1

\* get_perspective_transform (lines 147-168): the quadrilateral is mapped
\* to the rectangle (0,0)-(width-1,height-1)
get_perspective_transform(cfg) ==
    LET sx == Norm(cfg.width - 1, cfg.points[2][1] - cfg.points[1][1], 1)
        sy == Norm(cfg.height - 1, cfg.points[4][2] - cfg.points[1][2], 1)
    IN  [sx |-> sx, tx |-> RatNeg(RatMul(sx, IntReal(cfg.points[1][1]))),
         sy |-> sy, ty |-> RatNeg(RatMul(sy, IntReal(cfg.points[1][2])))]

\* np.linalg.inv of such a matrix
inv(M) ==
    [sx |-> RatDiv(IntReal(1), M.sx), tx |-> RatNeg(RatDiv(M.tx, M.sx)),
     sy |-> RatDiv(IntReal(1), M.sy), ty |-> RatNeg(RatDiv(M.ty, M.sy))]

\* cv2.perspectiveTransform of one point
perspectiveTransform(pt, M) ==
    <<RatAdd(RatMul(M.sx, pt[1]), M.tx), RatAdd(RatMul(M.sy, pt[2]), M.ty)>>

\* int(v) of a float that is the rational v rounded: when v is a whole
\* number the float may lie just below it (err = -1) or just above
\* (err = 1), and int truncates toward zero
IntOfFloat(v, err) ==
    LET k == IF v.n >= 0 THEN v.n \div v.d ELSE -((-v.n) \div v.d)
    IN  IF v.n % v.d # 0 THEN k
        ELSE IF err = -1 /\ k > 0 THEN k - 1
        ELSE IF err = 1 /\ k < 0 THEN k + 1
        ELSE k

\* unwarp_coordinates (lines 185-198), for an inverse matrix that is not None
unwarp_coordinates(point, inverse_matrix, err) ==
    LET original_p == perspectiveTransform(point, inverse_matrix)
    IN  <<IntOfFloat(original_p[1], err[1]), IntOfFloat(original_p[2], err[2])>>

\* the upright rectangles of the ROI grid, selected corner by corner
WarpConfigs ==
    {BuildRoiConfig(<<<<x0, y0>>, <<x1, y0>>, <<x1, y1>>, <<x0, y1>>>>) :
        x0 \in {RoiStep}, y0 \in {RoiStep},
        x1 \in {i * RoiStep : i \in 2..MaxRoi}, y1 \in {j * RoiStep : j \in 2..MaxRoi}}

WarpOffsets == 0..MaxWarp

InitWarp ==
    /\ pc = "warp_call"
    /\ caller = "warp"
    /\ cap_open = TRUE
    /\ NoLoop
    /\ NoGui
    /\ pixels_per_mm = NoRatio
    /\ cs_pixels_per_mm = NoRatio
    /\ ref_points = <<>>
    /\ callback_set = FALSE
    /\ lbutton = FALSE
    /\ size_config = FileMissing
    /\ bbox = NoBox
    /\ size_mm = NoSize
    /\ points = <<>>
    /\ picked = <<>>
    /\ roi_config \in WarpConfigs
    /\ roi_file = RoiFileHolding(roi_config)
    /\ \E i, j \in WarpOffsets :
           src_point = <<roi_config.points[1][1] * SubPixel + i,
                         roi_config.points[1][2] * SubPixel + j>>
    /\ unwarped = NoPoint

\* src_point is mapped into the rectified image and back (lines 147-198)
WarpUnwarp(err) ==
    /\ pc = "warp_call"
    /\ LET M == get_perspective_transform(roi_config)
           p == <<Norm(src_point[1], SubPixel, 1), Norm(src_point[2], SubPixel, 1)>>
       IN  unwarped' = unwarp_coordinates(perspectiveTransform(p, M), inv(M), err)
    /\ pc' = "warp_done"
    /\ UNCHANGED <<caller, cap_open, src_point>>
    /\ UNCHANGED <<size_vars, roi_vars, loop_vars, gui_vars>>

NextWarp == \E ex, ey \in {-1, 0, 1} : WarpUnwarp(<<ex, ey>>)

SpecWarp == InitWarp /\ [][NextWarp]_vars

-----------------------------------------------------------------------------
(* calculate_size on its own: the inputs are drawn, one step applies it *)

\* the ratios a session can hold: measured, read back from the record, default
MeasuredRatios == {MeasuredRatio(p, q) : p \in PickGrid, q \in PickGrid}
SizeRatios ==
    MeasuredRatios
        \cup {load_calibration_config(save_calibration_config(r)) : r \in MeasuredRatios}
        \cup {DefaultRatio}

InitSize ==
    /\ pc = "size_call"
    /\ caller = "size"
    /\ cap_open = TRUE
    /\ NoLoop
    /\ NoGui
    /\ NoWarp
    /\ \/ pixels_per_mm \in SizeRatios /\ size_config = FileMissing
       \/ pixels_per_mm = NoRatio /\ size_config \in InitialFiles
    /\ cs_pixels_per_mm = NoRatio
    /\ ref_points = <<>>
    /\ callback_set = FALSE
    /\ lbutton = FALSE
    /\ bbox \in Boxes
    /\ size_mm = NoSize
    /\ points = <<>>
    /\ picked = <<>>
    /\ roi_config = NoRoi
    /\ roi_file = RoiFileMissing

SizeApply ==
    /\ pc = "size_call"
    /\ size_mm' = calculate_size(Frame, bbox, pixels_per_mm)
    /\ pc' = "size_done"
    /\ UNCHANGED <<caller, loop_vars, gui_vars, warp_vars, cap_open, pixels_per_mm, cs_pixels_per_mm, ref_points,
                   callback_set, lbutton, size_config, bbox>>
    /\ UNCHANGED roi_vars

NextSize == SizeApply

SpecSize == InitSize /\ [][NextSize]_vars

-----------------------------------------------------------------------------
(* The calibration store on its own: a ratio and a record are drawn,      *)
(* save_calibration_config and load_calibration_config are applied.       *)
(* pixels_per_mm holds the argument of save_calibration_config,           *)
(* cs_pixels_per_mm what load_calibration_config returned.                *)

StoreRatios ==
    SizeRatios
        \cup {Ratio(Norm(i, j, 1), np) : i \in 0..MaxNum, j \in 1..MaxDen, np \in BOOLEAN}

StoreFiles == {FileMissing, FileCorrupt} \cup {FileNumber(r.val) : r \in SizeRatios}

InitStore ==
    /\ pc = "store_call"
    /\ caller = "store"
    /\ cap_open = TRUE
    /\ NoLoop
    /\ NoGui
    /\ NoWarp
    /\ pixels_per_mm \in StoreRatios
    /\ cs_pixels_per_mm = NoRatio
    /\ ref_points = <<>>
    /\ callback_set = FALSE
    /\ lbutton = FALSE
    /\ size_config \in StoreFiles
    /\ bbox = NoBox
    /\ size_mm = NoSize
    /\ points = <<>>
    /\ picked = <<>>
    /\ roi_config = NoRoi
    /\ roi_file = RoiFileMissing

\* save_calibration_config(pixels_per_mm) (Size.py lines 21-29): the write
\* succeeds, or fails and is reported
StoreSave(written) ==
    /\ pc = "store_call"
    /\ size_config' = written
    /\ pc' = IF written = save_calibration_config(pixels_per_mm)
             THEN "store_saved" ELSE "store_save_failed"
    /\ UNCHANGED <<caller, loop_vars, gui_vars, warp_vars, cap_open, pixels_per_mm, cs_pixels_per_mm, ref_points,
                   callback_set, lbutton, bbox, size_mm>>
    /\ UNCHANGED roi_vars

\* load_calibration_config() (Size.py lines 9-19)
StoreLoad ==
    /\ pc \in {"store_call", "store_saved", "store_save_failed"}
    /\ cs_pixels_per_mm' = load_calibration_config(size_config)
    /\ pc' = IF pc = "store_saved" THEN "store_saved_loaded" ELSE "store_loaded"
    /\ UNCHANGED <<caller, loop_vars, gui_vars, warp_vars, cap_open, pixels_per_mm, ref_points,
                   callback_set, lbutton, size_config, bbox, size_mm>>
    /\ UNCHANGED roi_vars

NextStore ==
    \/ \E f \in SaveOutcomes(pixels_per_mm) : StoreSave(f)
    \/ StoreLoad

SpecStore == InitStore /\ [][NextStore]_vars

-----------------------------------------------------------------------------
(* Claims *)

DegenerateMeasurement ==
    Len(ref_points) = 2 /\ ref_points[1] = ref_points[2]

\* C1: calibrate_system rejects a measurement whose two points are
\* identical: when it returns after such a measurement, the ratio it
\* returns is not 0 and the persisted record is the one from before.
C1_DegenerateMeasurementRejected ==
    [][(pc = "cs_show" /\ DegenerateMeasurement /\ pc' = "main_loop")
          => (pixels_per_mm'.val # Zero /\ size_config' = size_config)]_vars

\* C2: in the detection loop the ratio handed to calculate_size is a number
\* strictly greater than 0.
C2_RatioPositiveInLoop ==
    pc \in {"main_loop", "main_key"} => IsPositive(pixels_per_mm.val)

ZeroArea(b) == b[1] = b[3] \/ b[2] = b[4]
PositiveRatioArg == pixels_per_mm = NoRatio \/ IsPositive(pixels_per_mm.val)

\* C8: for a positive ratio, calculate_size returns (0, 0) for every
\* bounding box with x1 = x2 or y1 = y2.
C8_ZeroAreaBoxIsZero ==
    (pc = "size_done" /\ PositiveRatioArg /\ ZeroArea(bbox))
        => size_mm = Returned(Zero, Zero)

C8_Witness ==
    /\ pc = "size_done"
    /\ IsPositive(pixels_per_mm.val)
    /\ bbox[1] = bbox[3]
    /\ IntTrunc(bbox[2]) < IntTrunc(bbox[4])
    /\ SliceLen(FrameH, IntTrunc(bbox[2]), IntTrunc(bbox[4])) > 0
    /\ size_mm = Returned(Zero, Zero)

Doubled(r) == Ratio(Double(r.val), r.np)

\* C9: for the same image and box and a positive ratio r, calculate_size
\* with 2r returns half of each value it returns with r.
C9_DoubleRatioHalvesSize ==
    (pc = "size_done" /\ pixels_per_mm # NoRatio /\ IsPositive(pixels_per_mm.val))
        => LET twice == calculate_size(Frame, bbox, Doubled(pixels_per_mm))
           IN  /\ size_mm.err = ""
               /\ twice.err = ""
               /\ twice.w = Half(size_mm.w)
               /\ twice.h = Half(size_mm.h)

C9_Witness ==
    /\ pc = "size_done"
    /\ pixels_per_mm # NoRatio
    /\ IsPositive(pixels_per_mm.val)
    /\ size_mm.err = ""
    /\ size_mm.w # Zero
    /\ size_mm.h # Zero
    /\ calculate_size(Frame, bbox, Doubled(pixels_per_mm)).w = Half(size_mm.w)
    /\ Half(size_mm.w) # size_mm.w

\* a box of 100 x 50 pixels inside the image detection runs on
Box100x50(b) ==
    /\ b[3] - b[1] = 100 * SubPixel
    /\ b[4] - b[2] = 50 * SubPixel
    /\ b[1] >= 0 /\ b[3] <= DetectionImage.w * SubPixel
    /\ b[2] >= 0 /\ b[4] <= DetectionImage.h * SubPixel

\* C10: a two-point pick 300 pixels apart with known length 150 mm gives
\* the ratio 2.0 px/mm, and with that ratio a 100 x 50 pixel box inside the
\* frame is reported as 50.0 x 25.0 mm.
C10_Example ==
    /\ (pc = "cs_show" /\ Len(ref_points) = 2
          /\ Dist2(ref_points[1], ref_points[2]) = 300 * 300
          /\ known_size_mm = 150)
         => cs_pixels_per_mm.val = IntReal(2)
    /\ (pc = "main_key" /\ pixels_per_mm.val = IntReal(2) /\ Box100x50(bbox))
         => size_mm = Returned(IntReal(50), IntReal(25))

C10_Witness ==
    /\ pc = "main_key"
    /\ pixels_per_mm = Ratio(IntReal(2), TRUE)
    /\ size_config = FileNumber(IntReal(2))
    /\ Box100x50(bbox)
    /\ size_mm = Returned(IntReal(50), IntReal(25))

-----------------------------------------------------------------------------
(* Claims about roi.py, checked under SpecRoi *)

Selected == pc = "roi_done" /\ roi_config.kind = "roi"
PickedSet == {picked[i] : i \in DOMAIN picked}
Sum(p) == p[1] + p[2]
XminusY(p) == p[1] - p[2]
YminusX(p) == p[2] - p[1]

\* C3 as claimed: the returned points are [top-left, top-right,
\* bottom-right, bottom-left] with top-left minimizing x+y, bottom-right
\* maximizing x+y, top-right minimizing x-y and bottom-left maximizing x-y.
C3_OrderByExtrema ==
    Selected =>
        LET c == roi_config.points
        IN  /\ \A i \in 1..4 : c[i] \in PickedSet
            /\ \A p \in PickedSet : Sum(c[1]) <= Sum(p)
            /\ \A p \in PickedSet : Sum(c[3]) >= Sum(p)
            /\ \A p \in PickedSet : XminusY(c[2]) <= XminusY(p)
            /\ \A p \in PickedSet : XminusY(c[4]) >= XminusY(p)

\* C3 as amended: top-left minimizes x+y, bottom-right maximizes x+y,
\* top-right minimizes y-x (it maximizes x-y) and bottom-left maximizes y-x
\* (it minimizes x-y); each is one of the input points.
C3_OrderByExtremaAmended ==
    Selected =>
        LET c == roi_config.points
        IN  /\ \A i \in 1..4 : c[i] \in PickedSet
            /\ \A p \in PickedSet : Sum(c[1]) <= Sum(p)
            /\ \A p \in PickedSet : Sum(c[3]) >= Sum(p)
            /\ \A p \in PickedSet : YminusX(c[2]) <= YminusX(p)
            /\ \A p \in PickedSet : YminusX(c[4]) >= YminusX(p)

C3_Witness ==
    /\ Selected
    /\ Cardinality(PickedSet) = 4
    /\ Cardinality({roi_config.points[i] : i \in 1..4}) = 4
    /\ picked # roi_config.points
    /\ XminusY(roi_config.points[2]) > XminusY(roi_config.points[4])

\* twice the signed area of the triangle p, q, r
Cross(p, q, r) ==
    (q[1] - p[1]) * (r[2] - p[2]) - (q[2] - p[2]) * (r[1] - p[1])

\* no two points equal, no three collinear
NonDegenerate(pts) ==
    /\ \A i, j \in DOMAIN pts : i # j => pts[i] # pts[j]
    /\ \A i, j, k \in DOMAIN pts :
           (i < j /\ j < k) => Cross(pts[i], pts[j], pts[k]) # 0

\* C4: for four non-degenerate points, order_points applied to its own
\* output gives that output again.
C4_OrderIdempotent ==
    (Selected /\ NonDegenerate(picked))
        => order_points(roi_config.points) = roi_config.points

SquareExample == <<<<100, 100>>, <<300, 100>>, <<300, 300>>, <<100, 300>>>>

\* C5: confirming the four points (100,100), (300,100), (300,300),
\* (100,300), in whatever order they were clicked, gives a configuration
\* whose points are exactly that sequence and whose width and height are 200.
C5_SquareExample ==
    (Selected /\ PickedSet = {SquareExample[i] : i \in 1..4})
        => roi_config = RoiConfig(SquareExample, 200, 200)

C5_Witness ==
    /\ Selected
    /\ picked = SquareExample
    /\ roi_config.points = SquareExample
    /\ roi_config.width = 200
    /\ roi_config.height = 200
    /\ roi_file = RoiFileHolding(roi_config)

\* w is the real number sqrt(d2), truncated
IsTruncatedRoot(w, d2) == w >= 0 /\ w * w <= d2 /\ (w + 1) * (w + 1) > d2

\* C6: for the ordered points [tl, tr, br, bl] of the configuration, width
\* is the greater of |tl-tr| and |bl-br| and height the greater of |tl-bl|
\* and |tr-br|, truncated to an integer.
C6_RectifiedSize ==
    Selected =>
        LET c == roi_config.points
        IN  /\ IsTruncatedRoot(roi_config.width,
                               Max(Dist2(c[1], c[2]), Dist2(c[4], c[3])))
            /\ IsTruncatedRoot(roi_config.height,
                               Max(Dist2(c[1], c[4]), Dist2(c[2], c[3])))

C6_Witness ==
    /\ Selected
    /\ LET c == roi_config.points
       IN  /\ Dist2(c[1], c[2]) < Dist2(c[4], c[3])
           /\ Dist2(c[1], c[4]) > Dist2(c[2], c[3])
           /\ roi_config.width * roi_config.width < Dist2(c[4], c[3])
           /\ roi_config.height * roi_config.height < Dist2(c[1], c[4])
           /\ Dist2(c[1], c[2]) > 0
           /\ Dist2(c[2], c[3]) > 0

\* C7: every configuration select_roi returns and persists has width >= 1
\* and height >= 1.
C7_PositiveSize ==
    Selected => (roi_config.width >= 1 /\ roi_config.height >= 1)

-----------------------------------------------------------------------------
(* Claims about the calibration store, checked under SpecStore *)

LoadedAfterSave == pc = "store_saved_loaded"

Loaded == pc \in {"store_loaded", "store_saved_loaded"}

\* C12: load_calibration_config never raises: when the record is missing
\* or cannot be parsed, it returns the default 10.0.
C12_LoadFallsBackToDefault ==
    (Loaded /\ size_config \in {FileMissing, FileCorrupt})
        => cs_pixels_per_mm = Ratio(IntReal(10), FALSE)

C12_Witness ==
    /\ Loaded
    /\ size_config = FileCorrupt
    /\ cs_pixels_per_mm = Ratio(IntReal(10), FALSE)

-----------------------------------------------------------------------------
(* Claims about persistence failures *)

\* C13: a failure to write the calibration record is not propagated: the
\* step that ends the two-second display of a measurement without the
\* measured ratio reaching the record still returns to main, and main's
\* ratio is the measured one.
C13_WriteFailureNotPropagated ==
    [][(pc = "cs_show" /\ pc' # "cs_show"
          /\ size_config' # save_calibration_config(cs_pixels_per_mm))
         => (pc' = "main_loop"
               /\ pixels_per_mm' = cs_pixels_per_mm
               /\ pixels_per_mm' \in MeasuredRatios)]_vars

C13_Witness ==
    /\ pc = "main_loop"
    /\ pixels_per_mm = MeasuredRatio(<<0, 0>>, <<PickStep, 0>>)
    /\ size_config = FileCorrupt

\* C14: a failure to read or to write the ROI record is never fatal:
\* load_roi_config answers an unreadable record with None, and no
\* exception leaves select_roi.
C14_RoiPersistenceNeverFatal ==
    /\ load_roi_config(RoiFileCorrupt) = NoRoi
    /\ load_roi_config(RoiFileMissing) = NoRoi
    /\ pc # "crashed"

-----------------------------------------------------------------------------
(* Claims about the session of main, checked under Spec *)

\* C15: a ROI selection whose four points are degenerate (two equal or
\* three on a line) is rejected: the step that confirms it leaves the ROI
\* in effect and the ROI record as they were, and the detection loop is
\* never ended by the exception of a singular transform.
C15_DegenerateRoiRejected ==
    /\ [][(pc = "sel_start" /\ ~NonDegenerate(picked') /\ SelectWhole(picked'))
            => (roi_config' = roi_config /\ roi_file' = roi_file)]_vars
    /\ [](size_mm.err # "LinAlgError")

\* C16: on every path by which the detection loop of main stops ('q', a
\* failed frame read, or an error raised in the loop, in calibration or in
\* ROI selection), the capture handle has been released and the windows
\* destroyed (lines 134-135 have run).
LoopStopped ==
    \/ pc = "released"
    \/ pc = "crashed" /\ (caller = "main_loop" \/ size_mm.err \notin {"", "None"})

C16_ReleasedOnEveryExit == LoopStopped => ~cap_open

-----------------------------------------------------------------------------
(* Claims about select_roi's keys, checked under SpecRoi *)

\* C18: in select_roi the selection ends only by Enter with exactly 4
\* points picked, and Escape empties the picked points and leaves the
\* selection open, so that four points can be picked anew.
C18_EnterAndEscape ==
    [][/\ (pc = "sel_wait" /\ pc' # "sel_wait") => Len(points) = 4
       /\ SelEscape => (points' = <<>> /\ pc' = "sel_wait")]_vars

C18_Witness ==
    /\ pc = "roi_done"
    /\ Len(picked) = 4
    /\ roi_config = BuildRoiConfig(picked)

-----------------------------------------------------------------------------
(* Claims about main's loop, checked under Spec *)

-----------------------------------------------------------------------------
(* Claims about the GUI's feed loops, checked under SpecGui *)

\* C17: a failed frame read ends the capture loop at once: a feed loop
\* whose last read returned no frame is not scheduled to run again, so it
\* performs no further read, detection or display step.
C17_FailedReadEndsLoop ==
    pc = "gui_idle"
        => \A loop \in Feeds : feed_ret[loop] = "failed" => loop \notin timers

\* the loops that read frames from the capture and have not ended: the
\* feed loops with a pending callback, and calibrate_system while it runs
ReadingLoops ==
    timers \cup (IF InCalibration THEN {"calibrate_system"} ELSE {})

\* C20: at any time at most one loop reads from the open capture handle:
\* no two frame-reading loops are alive on the same handle and interleave
\* their reads.
C20_OneReadingLoop == cap_open => Cardinality(ReadingLoops) <= 1

\* C21: the perspective transform used for a frame is derived from the
\* current ROI configuration: once a ROI is configured, every detection
\* on a captured frame runs on the frame rectified with that ROI.
C21_TransformFromCurrentRoi ==
    [][(roi_config.kind = "roi"
          /\ \E b \in GuiBoxes : update_detection_feed("frame", b))
         => detected_on' = WarpedImage(roi_config)]_vars

-----------------------------------------------------------------------------
(* Claims about the ROI of main's session, checked under Spec *)

\* C22: once a ROI is configured, the session's ROI changes only by a
\* completed re-selection, which replaces it and the record together; and
\* at every iteration of the detection loop the session's ROI is the one
\* of the ROI record.
C22_SessionRoiIsRecord ==
    /\ [][(roi_config.kind = "roi" /\ roi_config' # roi_config)
            => (roi_config'.kind = "roi" /\ roi_file' = RoiFileHolding(roi_config'))]_vars
    /\ []((pc \in {"main_loop", "main_key"} /\ roi_file.kind = "config")
            => roi_config = roi_file.cfg)

-----------------------------------------------------------------------------
(* Claims about the perspective transform, checked under SpecWarp *)

\* C23: for a valid ROI and a point p inside its quadrilateral, mapping p
\* through the perspective transform and back through unwarp_coordinates
\* with the inverse matrix gives p again, to less than one sub-pixel step.
C23_UnwarpRoundTrip ==
    (pc = "warp_done" /\ Upright(roi_config))
        => (unwarped[1] * SubPixel = src_point[1] /\ unwarped[2] * SubPixel = src_point[2])

-----------------------------------------------------------------------------
(* Claims about the GUI's navigation, checked under SpecGui *)

-----------------------------------------------------------------------------
(* Claims about leaving calibration, checked under Spec *)

\* C25: 'q' pressed while calibrate_system waits for the two points of a
\* measurement skips calibration: with that key press calibrate_system
\* returns, and what it returns is the ratio of the record, or 10.0
\* without a readable record.
C25_SkipWhileMeasuring ==
    [][(MeasureKeyQ /\ Len(ref_points) < 2)
         => (~InCalibration' /\ pixels_per_mm' = load_calibration_config(size_config))]_vars

-----------------------------------------------------------------------------
(* Claims about the corners and the clicks of a selection, checked under
   SpecRoi *)

\* the segments p-q and r-s cross
Crosses(p, q, r, s) ==
    /\ Cross(p, q, r) * Cross(p, q, s) < 0
    /\ Cross(r, s, p) * Cross(r, s, q) < 0

\* four points, no two equal and no three collinear, whose outline in the
\* order given does not cross itself
SimpleQuadrilateral(pts) ==
    /\ Len(pts) = 4
    /\ NonDegenerate(pts)
    /\ ~Crosses(pts[1], pts[2], pts[3], pts[4])
    /\ ~Crosses(pts[2], pts[3], pts[4], pts[1])

\* C26: for four points that form a simple quadrilateral, the output of
\* order_points is a permutation of the input: every input point is one of
\* the four corners, and the four corners are pairwise distinct.
C26_OrderIsPermutation ==
    (Selected /\ SimpleQuadrilateral(picked))
        => /\ {roi_config.points[i] : i \in 1..4} = PickedSet
           /\ \A i, j \in 1..4 : i # j => roi_config.points[i] # roi_config.points[j]

\* C27: while select_roi waits, whatever was clicked and pressed, no more
\* than four points are collected.
C27_AtMostFourPoints ==
    pc = "sel_wait" => Len(points) <= 4

-----------------------------------------------------------------------------
(* Claims about the boxes calculate_size measures, checked under SpecSize *)

\* the ratio calculate_size divides by: its argument, or without one the
\* ratio of the record, or 10.0 without a record
RatioInEffect ==
    IF pixels_per_mm = NoRatio
    THEN IF FileExists(size_config) THEN load_calibration_config(size_config)
         ELSE DefaultRatio
    ELSE pixels_per_mm

\* the truncated box has a pixel in common with the image
OverlapsImage(b) ==
    /\ IntTrunc(b[1]) < FrameW /\ IntTrunc(b[3]) > 0
    /\ IntTrunc(b[2]) < FrameH /\ IntTrunc(b[4]) > 0

\* the truncated box has x1 < x2 and y1 < y2
ProperBox(b) == IntTrunc(b[1]) < IntTrunc(b[3]) /\ IntTrunc(b[2]) < IntTrunc(b[4])

\* C28: with a positive ratio r, for every box whose truncated corners
\* have x1 < x2 and y1 < y2 and which overlaps the image, calculate_size
\* returns ((x2-x1)/r, (y2-y1)/r) of the truncated corners; and it returns
\* (0, 0) only for a truncated box without area or wholly outside the image.
C28_SizeOfOverlappingBox ==
    (pc = "size_done" /\ IsPositive(RatioInEffect.val))
        => /\ (ProperBox(bbox) /\ OverlapsImage(bbox))
                => size_mm = Returned(
                       DivideByRatio(IntTrunc(bbox[3]) - IntTrunc(bbox[1]), RatioInEffect),
                       DivideByRatio(IntTrunc(bbox[4]) - IntTrunc(bbox[2]), RatioInEffect))
           /\ size_mm = Returned(Zero, Zero)
                => (~ProperBox(bbox) \/ ~OverlapsImage(bbox))

-----------------------------------------------------------------------------
(* Claims about recalibration from main's loop, checked under Spec *)

\* calibrate_system was entered by 'c' in main's loop: the session has a ratio
Recalibrating == InCalibration /\ pixels_per_mm # NoRatio

\* C29: calibration entered by 'c' from the detection loop and left without
\* a completed measurement, by 'q' or by a failed frame read, leaves the
\* ratio of the session as it was before the key press.
C29_SkippedRecalibrationKeepsRatio ==
    [][(Recalibrating /\ (CsKeyQ \/ CsReadFail))
         => pixels_per_mm' = pixels_per_mm]_vars

====
